---- MODULE Spec2Model ----
(***************************************************************************)
(* Model of the Markov chain text generator of markov.py: the tokenizer    *)
(* (_tokenize), the chain builder (__init__ / _build_model) and the        *)
(* sampler (_get_random_start / generate_text) of class MarkovGenerator,   *)
(* and add_sentence of class MarkovChainerLegacy.                          *)
(*                                                                         *)
(* A Python str is a sequence of one-character strings; a token is such a  *)
(* sequence too. A window (a key of the model) is a sequence of tokens.    *)
(* The model is a function from its keys to sequences of successor tokens. *)
(***************************************************************************)
EXTENDS Integers, Sequences, FiniteSets, TLC

VARIABLES
    source_texts,   \* the constructor's argument: a sequence of texts
    order,          \* self.order
    model,          \* self.model: key -> list of successors
    beginnings,     \* self.beginnings: list of windows
    ti,             \* number of texts the loop of _build_model has taken
    text,           \* the text last handed to _tokenize
    words,          \* the list last returned by _tokenize
    pc,             \* position of the program
    max_words,      \* generate_text's argument
    min_words,      \* generate_text's argument
    current,        \* generate_text's local
    result,         \* generate_text's local
    iter,           \* number of times the body of the for loop was entered
    stop,           \* why the for loop ended
    ret,            \* the string generate_text returned
    string,         \* MarkovChainerLegacy.add_sentence's argument
    terminator,     \* MarkovChainerLegacy.add_sentence's argument
    freq,           \* MarkovChainerLegacy.freq: key -> list of successors
    buf,            \* add_sentence's local
    wi              \* number of words the loop of add_sentence has taken

vars == <<source_texts, order, model, beginnings, ti, text, words, pc,
          max_words, min_words, current, result, iter, stop, ret,
          string, terminator, freq, buf, wi>>

(***************************************************************************)
(* Bounds of the model.                                                    *)
(***************************************************************************)
MaxTexts == 2      \* texts in a corpus
MaxRawWords == 4   \* whitespace-separated raw words in a corpus, all texts together
MaxOrder == 2      \* order is 1..MaxOrder
MaxM == 4          \* max_words is 0..MaxM
MaxK == 3          \* min_words is 0..MaxK
MaxTextLen == 5    \* characters in a text handed to the tokenizer alone
MaxLegacyOrder == 3    \* the legacy order is 1..MaxLegacyOrder
MaxSentenceWords == 4  \* words in a sentence handed to add_sentence

(***************************************************************************)
(* Characters.                                                             *)
(***************************************************************************)
Whitespace == {" ", "\t"}              \* matched by \s, split on by split()
Alnum == {"a", "b", "1"}               \* str.isalnum
WordChars == Alnum \cup {"_"}          \* matched by \w
Terminals == {".", "!", "?"}
Chars == {"a", "1", "_", ",", ".", "!", "?", " ", "\t"}

Max(a, b) == IF a >= b THEN a ELSE b

SeqsUpTo(S, n) == UNION {[1..k -> S] : k \in 0..n}

Last(s) == s[Len(s)]

(***************************************************************************)
(* str operations used by the code.                                        *)
(***************************************************************************)
\* word.endswith(('.', '!', '?'))
EndsTerminal(word) == Len(word) > 0 /\ Last(word) \in Terminals

RECURSIVE DropSpaces(_)
DropSpaces(s) ==
    IF s = <<>> THEN <<>>
    ELSE IF Head(s) \in Whitespace THEN DropSpaces(Tail(s)) ELSE s

\* re.sub(r'\s+', ' ', text)
RECURSIVE CollapseWhitespace(_)
CollapseWhitespace(s) ==
    IF s = <<>> THEN <<>>
    ELSE IF Head(s) \in Whitespace
         THEN <<" ">> \o CollapseWhitespace(DropSpaces(Tail(s)))
         ELSE <<Head(s)>> \o CollapseWhitespace(Tail(s))

RECURSIVE DropTrailingSpaces(_)
DropTrailingSpaces(s) ==
    IF s = <<>> THEN <<>>
    ELSE IF Last(s) \in Whitespace
         THEN DropTrailingSpaces(SubSeq(s, 1, Len(s) - 1)) ELSE s

\* text.strip()
Strip(s) == DropTrailingSpaces(DropSpaces(s))

\* text.split(): the maximal runs of non-whitespace characters, in order
RECURSIVE SplitFrom(_, _, _)
SplitFrom(s, cur, acc) ==
    IF s = <<>> THEN (IF cur = <<>> THEN acc ELSE Append(acc, cur))
    ELSE IF Head(s) \in Whitespace
         THEN SplitFrom(Tail(s), <<>>, IF cur = <<>> THEN acc ELSE Append(acc, cur))
         ELSE SplitFrom(Tail(s), Append(cur, Head(s)), acc)

Split(s) == SplitFrom(s, <<>>, <<>>)

\* ' '.join(ws)
RECURSIVE Join(_)
Join(ws) ==
    IF ws = <<>> THEN <<>>
    ELSE IF Len(ws) = 1 THEN ws[1]
    ELSE ws[1] \o <<" ">> \o Join(Tail(ws))

\* the characters re.sub(r'[^\w\s]', '', word) keeps
KeptChar(c) == c \in WordChars \cup Whitespace

\* re.sub(r'[^\w\s]', '', word)
RemovePunctuation(word) == SelectSeq(word, KeptChar)

\* the body of the loop of _tokenize: the words list after one raw word
TokenizeWord(ws, word) ==
    IF EndsTerminal(word) THEN Append(ws, word)
    ELSE LET w == RemovePunctuation(word)
         IN IF w # <<>> THEN Append(ws, w) ELSE ws

RECURSIVE TokenizeWords(_, _)
TokenizeWords(raw, ws) ==
    IF raw = <<>> THEN ws
    ELSE TokenizeWords(Tail(raw), TokenizeWord(ws, Head(raw)))

\* _tokenize(text)
tokenize(t) == TokenizeWords(Split(Strip(CollapseWhitespace(t))), <<>>)

(***************************************************************************)
(* The chain builder.                                                      *)
(***************************************************************************)
EmptyModel == [k \in {} |-> <<>>]

\* a skip that is strict: len(words) < self.order
TooShortStrict(ws, n) == Len(ws) < n

\* len(words) <= self.order
TooShort(ws, n) == Len(ws) <= n

\* a list of beginnings that keeps no duplicate
AppendBeginningOnce(b, ws, n) ==
    IF \E j \in 1..Len(b) : b[j] = SubSeq(ws, 1, n) THEN b
    ELSE Append(b, SubSeq(ws, 1, n))

\* self.beginnings.append(tuple(words[:self.order]))
AppendBeginning(b, ws, n) == Append(b, SubSeq(ws, 1, n))

\* a successor list that keeps no duplicate
AddSuccessorOnce(m, key, next_word) ==
    [k \in DOMAIN m \cup {key} |->
        IF k = key
        THEN (IF key \in DOMAIN m
              THEN (IF \E j \in 1..Len(m[key]) : m[key][j] = next_word
                    THEN m[key] ELSE Append(m[key], next_word))
              ELSE <<next_word>>)
        ELSE m[k]]

\* if key not in self.model: self.model[key] = []; self.model[key].append(next_word)
AddSuccessor(m, key, next_word) ==
    [k \in DOMAIN m \cup {key} |->
        IF k = key
        THEN (IF key \in DOMAIN m THEN Append(m[key], next_word) ELSE <<next_word>>)
        ELSE m[k]]

\* a window loop that stops one position early
RECURSIVE AddWindowsEarly(_, _, _, _)
AddWindowsEarly(m, ws, n, i) ==
    IF i >= Len(ws) - n - 1 THEN m
    ELSE AddWindowsEarly(AddSuccessor(m, SubSeq(ws, i + 1, i + n), ws[i + n + 1]),
                         ws, n, i + 1)

\* for i in range(len(words) - self.order): ... , from index i (0-based) on
RECURSIVE AddWindows(_, _, _, _)
AddWindows(m, ws, n, i) ==
    IF i >= Len(ws) - n THEN m
    ELSE AddWindows(AddSuccessor(m, SubSeq(ws, i + 1, i + n), ws[i + n + 1]), ws, n, i + 1)

(***************************************************************************)
(* The corpora: a sequence of raw words cut into texts, the raw words of a *)
(* text joined by single spaces.                                           *)
(***************************************************************************)
RawWords == {<<"a">>, <<"b", ".">>, <<",">>}
CorpusTexts == {Join(rw) : rw \in SeqsUpTo(RawWords, MaxRawWords)}

\* the ends of the k texts cut from n raw words: non-decreasing, the last is n
Cuts(k, n) ==
    {c \in [1..k -> 0..n] :
        /\ k > 0 => c[k] = n
        /\ \A j \in 1..(k - 1) : c[j] <= c[j + 1]}

\* the raw words rw cut at c
CutTexts(rw, c) ==
    [j \in DOMAIN c |->
        Join(SubSeq(rw, (IF j = 1 THEN 0 ELSE c[j - 1]) + 1, c[j]))]

Corpora ==
    UNION {{CutTexts(rw, c) : c \in Cuts(k, Len(rw))} :
              rw \in SeqsUpTo(RawWords, MaxRawWords), k \in 0..MaxTexts}

legVars == <<string, terminator, freq, buf, wi>>

\* no MarkovChainerLegacy is in use
NoLegacy ==
    /\ string = <<>>
    /\ terminator = <<>>
    /\ freq = EmptyModel
    /\ buf = <<>>
    /\ wi = 0

Init ==
    /\ source_texts \in Corpora
    /\ order \in 1..MaxOrder
    /\ model = EmptyModel
    /\ beginnings = <<>>
    /\ ti = 0
    /\ text = <<>>
    /\ words = <<>>
    /\ pc = "build"
    /\ max_words = 0
    /\ min_words = 0
    /\ current = <<>>
    /\ result = <<>>
    /\ iter = 0
    /\ stop = "none"
    /\ ret = <<>>
    /\ NoLegacy

genVars == <<max_words, min_words, current, result, iter, stop, ret>>

\* one text of the for loop of _build_model that is skipped
BuildSkip ==
    /\ pc = "build"
    /\ ti < Len(source_texts)
    /\ LET t == source_texts[ti + 1]
           ws == tokenize(t)
       IN /\ TooShort(ws, order)
          /\ text' = t
          /\ words' = ws
    /\ ti' = ti + 1
    /\ UNCHANGED <<source_texts, order, model, beginnings, pc>>
    /\ UNCHANGED genVars
    /\ UNCHANGED legVars

\* one text of the for loop of _build_model that is added
BuildAdd ==
    /\ pc = "build"
    /\ ti < Len(source_texts)
    /\ LET t == source_texts[ti + 1]
           ws == tokenize(t)
       IN /\ ~TooShort(ws, order)
          /\ text' = t
          /\ words' = ws
          /\ beginnings' = AppendBeginning(beginnings, ws, order)
          /\ model' = AddWindows(model, ws, order, 0)
    /\ ti' = ti + 1
    /\ UNCHANGED <<source_texts, order, pc>>
    /\ UNCHANGED genVars
    /\ UNCHANGED legVars

\* the for loop of _build_model is exhausted: the constructor returns
BuildDone ==
    /\ pc = "build"
    /\ ti = Len(source_texts)
    /\ pc' = "ready"
    /\ UNCHANGED <<source_texts, order, model, beginnings, ti, text, words>>
    /\ UNCHANGED genVars
    /\ UNCHANGED legVars

(***************************************************************************)
(* The sampler.                                                            *)
(***************************************************************************)
\* a generate_text without its first check
IsEmptyModelNever(m) == FALSE

\* not self.model
IsEmptyModel(m) == DOMAIN m = {}

\* a start that always falls back to the keys of the model
RandomStartsFallback(m, b) == DOMAIN m

\* _get_random_start: the sequence random.choice draws from, as a set
RandomStarts(m, b) ==
    IF b = <<>> THEN DOMAIN m
    ELSE {b[j] : j \in 1..Len(b)}

\* a range that is one too long
LoopRangeOneMore(M, n) == M - n + 1

\* range(max_words - self.order) yields the i with 0 <= i < max_words - self.order
LoopRange(M, n) == M - n

\* a loop without the natural ending
NaturalEndingNever(res, next_word, K) == FALSE

\* a natural ending that ignores min_words
NaturalEndingAnyLength(res, next_word, K) == EndsTerminal(next_word)

\* len(result) >= min_words and next_word.endswith(('.', '!', '?'))
NaturalEnding(res, next_word, K) == Len(res) >= K /\ EndsTerminal(next_word)

\* a current that is never advanced past the start of the result
TrailingWindowStuck(res, n) == SubSeq(res, 1, n)

\* tuple(result[-self.order:])
TrailingWindow(res, n) == SubSeq(res, Len(res) - n + 1, Len(res))

\* a return without the final punctuation
EnsurePunctuationSkipped(res) == res

\* if not result[-1].endswith(('.', '!', '?')): result[-1] = result[-1] + '.'
EnsurePunctuation(res) ==
    IF ~EndsTerminal(Last(res))
    THEN [res EXCEPT ![Len(res)] = @ \o <<".">>]
    ELSE res

\* a result that is the chosen beginning itself, not a copy of it
StoredBeginningsShared(b, res, written) ==
    [j \in DOMAIN b |-> IF b[j] = SubSeq(res, 1, Len(b[j])) THEN written ELSE b[j]]

\* self.beginnings after result[-1] is assigned: result = list(current) is a
\* list of its own and the windows are tuples, so no stored window is written
StoredBeginnings(b, res, written) == b

\* generate_text on an empty model: return ""
GenEmpty ==
    /\ pc = "ready"
    /\ IsEmptyModel(model)
    /\ \E M \in 0..MaxM, K \in 0..MaxK : max_words' = M /\ min_words' = K
    /\ ret' = <<>>
    /\ pc' = "done"
    /\ UNCHANGED <<source_texts, order, model, beginnings, ti, text, words>>
    /\ UNCHANGED <<current, result, iter, stop>>
    /\ UNCHANGED legVars

\* generate_text up to the for loop; random.choice of an empty sequence raises
GenStart ==
    /\ pc = "ready"
    /\ ~IsEmptyModel(model)
    /\ \E M \in 0..MaxM, K \in 0..MaxK : max_words' = M /\ min_words' = K
    /\ LET starts == RandomStarts(model, beginnings)
       IN IF starts = {}
          THEN pc' = "raised" /\ UNCHANGED <<current, result>>
          ELSE /\ \E s \in starts : current' = s /\ result' = s
               /\ pc' = "loop"
    /\ iter' = 0
    /\ stop' = "none"
    /\ UNCHANGED <<source_texts, order, model, beginnings, ti, text, words, ret>>
    /\ UNCHANGED legVars

\* the range of the for loop is exhausted
LoopExhausted ==
    /\ pc = "loop"
    /\ iter >= LoopRange(max_words, order)
    /\ stop' = "max"
    /\ pc' = "post"
    /\ UNCHANGED <<source_texts, order, model, beginnings, ti, text, words>>
    /\ UNCHANGED <<max_words, min_words, current, result, iter, ret>>
    /\ UNCHANGED legVars

\* an iteration that finds current not in self.model: break
LoopDeadEnd ==
    /\ pc = "loop"
    /\ iter < LoopRange(max_words, order)
    /\ current \notin DOMAIN model
    /\ iter' = iter + 1
    /\ stop' = "deadend"
    /\ pc' = "post"
    /\ UNCHANGED <<source_texts, order, model, beginnings, ti, text, words>>
    /\ UNCHANGED <<max_words, min_words, current, result, ret>>
    /\ UNCHANGED legVars

\* an iteration that appends a successor of current
LoopAppend ==
    /\ pc = "loop"
    /\ iter < LoopRange(max_words, order)
    /\ current \in DOMAIN model
    /\ \E j \in 1..Len(model[current]) :
         LET next_word == model[current][j]
             res == Append(result, next_word)
         IN /\ result' = res
            /\ current' = TrailingWindow(res, order)
            /\ IF NaturalEnding(res, next_word, min_words)
               THEN stop' = "terminal" /\ pc' = "post"
               ELSE stop' = stop /\ pc' = "loop"
    /\ iter' = iter + 1
    /\ UNCHANGED <<source_texts, order, model, beginnings, ti, text, words>>
    /\ UNCHANGED <<max_words, min_words, ret>>
    /\ UNCHANGED legVars

\* after the loop: the final punctuation, the join and the return
GenFinish ==
    /\ pc = "post"
    /\ result' = EnsurePunctuation(result)
    /\ beginnings' = StoredBeginnings(beginnings, result, result')
    /\ ret' = Join(result')
    /\ pc' = "done"
    /\ UNCHANGED <<source_texts, order, model, ti, text, words>>
    /\ UNCHANGED <<max_words, min_words, current, iter, stop>>
    /\ UNCHANGED legVars

\* the caller has the string: the locals of the call are gone
GenReturn ==
    /\ pc = "done"
    /\ pc' = "ready"
    /\ max_words' = 0
    /\ min_words' = 0
    /\ current' = <<>>
    /\ result' = <<>>
    /\ iter' = 0
    /\ stop' = "none"
    /\ ret' = <<>>
    /\ UNCHANGED <<source_texts, order, model, beginnings, ti, text, words>>
    /\ UNCHANGED legVars

Next ==
    \/ BuildSkip \/ BuildAdd \/ BuildDone
    \/ GenEmpty \/ GenStart
    \/ LoopExhausted \/ LoopDeadEnd \/ LoopAppend
    \/ GenFinish \/ GenReturn

Spec == Init /\ [][Next]_vars

\* generate_text runs to its return once called: one thread, no suspension point
FairSpec ==
    /\ Spec
    /\ WF_vars(LoopExhausted) /\ WF_vars(LoopDeadEnd) /\ WF_vars(LoopAppend)
    /\ WF_vars(GenFinish)

(***************************************************************************)
(* The tokenizer alone, on every text of up to MaxTextLen characters.      *)
(***************************************************************************)
InitTok ==
    /\ text \in SeqsUpTo(Chars, MaxTextLen)
    /\ words = <<>>
    /\ pc = "tokenize"
    /\ source_texts = <<>>
    /\ order = 1
    /\ model = EmptyModel
    /\ beginnings = <<>>
    /\ ti = 0
    /\ max_words = 0
    /\ min_words = 0
    /\ current = <<>>
    /\ result = <<>>
    /\ iter = 0
    /\ stop = "none"
    /\ ret = <<>>
    /\ NoLegacy

\* a call of _tokenize(text)
TokenizeCall ==
    /\ pc = "tokenize"
    /\ words' = tokenize(text)
    /\ pc' = "tokenized"
    /\ UNCHANGED <<source_texts, order, model, beginnings, ti, text>>
    /\ UNCHANGED genVars
    /\ UNCHANGED legVars

NextTok == TokenizeCall

SpecTok == InitTok /\ [][NextTok]_vars
(***************************************************************************)
(* MarkovChainerLegacy.add_sentence, on one sentence.                      *)
(***************************************************************************)
LegacyWords == {<<"a">>, <<"b">>}
LegacyTerminators == {<<".">>, <<";">>}
LegacySentences == {Join(ws) : ws \in SeqsUpTo(LegacyWords, MaxSentenceWords)}

\* a key of the first and the last word of the buffer
LegacyKeyLast(b) == <<b[1], b[Len(b)]>>

\* mykey = (buf[0], buf[-2])
LegacyKey(b) == <<b[1], b[Len(b) - 1]>>

\* if mykey in self.freq: self.freq[mykey].append(buf[-1])
\* else: self.freq[mykey] = [buf[-1]]
LegacyRecord(f, mykey, word) ==
    [k \in DOMAIN f \cup {mykey} |->
        IF k = mykey
        THEN (IF mykey \in DOMAIN f THEN Append(f[mykey], word) ELSE <<word>>)
        ELSE f[k]]

InitLegacy ==
    /\ order \in 1..MaxLegacyOrder
    /\ string \in LegacySentences
    /\ terminator \in LegacyTerminators
    /\ beginnings = <<>>
    /\ freq = EmptyModel
    /\ words = <<>>
    /\ buf = <<>>
    /\ wi = 0
    /\ pc = "add_sentence"
    /\ source_texts = <<>>
    /\ model = EmptyModel
    /\ ti = 0
    /\ text = <<>>
    /\ max_words = 0
    /\ min_words = 0
    /\ current = <<>>
    /\ result = <<>>
    /\ iter = 0
    /\ stop = "none"
    /\ ret = <<>>

\* add_sentence up to its for loop
AddSentenceSplit ==
    /\ pc = "add_sentence"
    /\ LET ws == Split(string)
       IN IF Len(ws) > order
          THEN /\ words' = Append(ws, terminator)
               /\ beginnings' = Append(beginnings, SubSeq(ws, 1, order))
          ELSE /\ words' = ws
               /\ beginnings' = beginnings
    /\ buf' = <<>>
    /\ wi' = 0
    /\ pc' = "words"
    /\ UNCHANGED <<source_texts, order, model, ti, text>>
    /\ UNCHANGED genVars
    /\ UNCHANGED <<string, terminator, freq>>

\* one word of the for loop of add_sentence
AddSentenceWord ==
    /\ pc = "words"
    /\ wi < Len(words)
    /\ LET b == Append(buf, words[wi + 1])
       IN IF Len(b) = order + 1
          THEN /\ freq' = LegacyRecord(freq, LegacyKey(b), Last(b))
               /\ buf' = Tail(b)
          ELSE /\ freq' = freq
               /\ buf' = b
    /\ wi' = wi + 1
    /\ UNCHANGED <<source_texts, order, model, beginnings, ti, text, words, pc>>
    /\ UNCHANGED genVars
    /\ UNCHANGED <<string, terminator>>

\* the for loop of add_sentence is exhausted: return
AddSentenceReturn ==
    /\ pc = "words"
    /\ wi = Len(words)
    /\ pc' = "added"
    /\ UNCHANGED <<source_texts, order, model, beginnings, ti, text, words>>
    /\ UNCHANGED genVars
    /\ UNCHANGED legVars

NextLegacy == AddSentenceSplit \/ AddSentenceWord \/ AddSentenceReturn

SpecLegacy == InitLegacy /\ [][NextLegacy]_vars

(***************************************************************************)
(* Properties.                                                             *)
(***************************************************************************)
Range(q) == {q[j] : j \in 1..Len(q)}

\* the number of tokens in a returned string
TokenCount(str) == Len(Split(str))

\* the model has no key
NoKey == DOMAIN model = {}

\* a generate_text call on a model with a key has returned
Returned == pc = "done" /\ ~NoKey

\* C1: the text generate_text returns has at most max_words tokens, for
\* every max_words, those below the order included.
C1_AtMostMaxWords == pc = "done" => TokenCount(ret) <= max_words

\* C2 as stated: on a non-empty model, a call that did not stop at a dead
\* end returns at least min_words tokens, for every max_words and min_words.
C2_AtLeastMinWordsAlways ==
    (Returned /\ stop # "deadend") => TokenCount(ret) >= min_words

\* C2: on a non-empty model, a call with max_words >= min_words that did
\* not stop at a dead end returns at least min_words tokens.
C2_AtLeastMinWords ==
    (Returned /\ stop # "deadend" /\ max_words >= min_words)
        => TokenCount(ret) >= min_words

\* a call that stopped at a terminal token exactly at min_words, past the start
C2_Witness ==
    /\ Returned /\ stop = "terminal"
    /\ max_words > min_words /\ min_words > order
    /\ TokenCount(ret) = min_words

\* C3 as stated: every string generate_text returns, the one returned on an
\* empty model included, ends with '.', '!' or '?'.
C3_EndsWithTerminalAlways ==
    pc = "done" => (ret # <<>> /\ Last(ret) \in Terminals)

\* C3: every string generate_text returns on a non-empty model, whatever
\* ended the loop, ends with '.', '!' or '?'.
C3_EndsWithTerminal ==
    Returned => (ret # <<>> /\ Last(ret) \in Terminals)

\* a call that ended at max_words on a plain token, which got its '.'
C3_Witness ==
    /\ Returned /\ stop = "max" /\ iter > 0
    /\ Last(result) = <<"a", ".">>
    /\ Last(ret) = "."

\* C4: the loop of generate_text is entered at most max(M - N, 0) times, and
\* a call that is in the loop reaches the end of the loop.
C4_LoopTerminates ==
    /\ [](pc = "loop" => iter <= Max(max_words - order, 0))
    /\ [](pc = "post" => iter <= Max(max_words - order, 0))
    /\ (pc = "loop" ~> pc = "post")

\* a call on a cycle of plain tokens that no dead end and no terminal ends
C4_Witness ==
    /\ pc = "post" /\ stop = "max"
    /\ iter = max_words - order /\ iter >= 2
    /\ current \in DOMAIN model
    /\ \A j \in 1..Len(result) : ~EndsTerminal(result[j])

\* no text of the corpus has more than order tokens
NoUsableText ==
    \A t \in 1..Len(source_texts) : Len(tokenize(source_texts[t])) <= order

\* C5: when no text is usable, the build leaves model and beginnings empty,
\* and generate_text returns "" without a start window and without raising.
C5_NoUsableTextEmpty ==
    (pc # "build" /\ NoUsableText) =>
        /\ NoKey /\ beginnings = <<>>
        /\ pc \in {"ready", "done"}
        /\ current = <<>> /\ result = <<>> /\ ret = <<>>

\* generate_text has returned on a corpus of two texts that are too short
C5_Witness ==
    /\ pc = "done" /\ NoUsableText
    /\ Len(source_texts) = 2
    /\ \E t \in 1..2 : Len(tokenize(source_texts[t])) = order

\* C6: a text of at most order tokens leaves model and beginnings as they were.
C6_ShortTextFrame ==
    [][(pc = "build" /\ ti' = ti + 1
            /\ Len(tokenize(source_texts[ti'])) <= order)
        => (model' = model /\ beginnings' = beginnings)]_vars

\* a text of exactly order tokens was taken after a text that was added
C6_Witness ==
    /\ pc = "build" /\ ti = 2
    /\ text = source_texts[2] /\ Len(words) = order
    /\ ~NoKey /\ Len(beginnings) = 1

\* C7: a corpus with a text of more than order tokens gives a model with a
\* key and a beginnings list with an entry.
C7_UsableTextNonEmpty ==
    (pc = "ready" /\ ~NoUsableText) =>
        (~NoKey /\ beginnings # <<>>)

\* the only usable text has exactly order + 1 tokens
C7_Witness ==
    /\ pc = "ready" /\ ~NoUsableText
    /\ \A t \in 1..Len(source_texts) : Len(tokenize(source_texts[t])) <= order + 1
    /\ Cardinality(DOMAIN model) = 1

\* the tokens the corpora can hold
AllTokens == UNION {Range(tokenize(t)) : t \in CorpusTexts}

\* the occurrences of s among the successors the model records for w
ModelCount(w, s) ==
    IF w \in DOMAIN model
    THEN Cardinality({j \in 1..Len(model[w]) : model[w][j] = s})
    ELSE 0

\* the positions of the tokens toks at which w is followed by s
Positions(toks, w, s) ==
    {i \in 0..(Len(toks) - order - 1) :
        SubSeq(toks, i + 1, i + order) = w /\ toks[i + order + 1] = s}

\* the positions, over the first n texts, at which w is followed by s
RECURSIVE CorpusCount(_, _, _)
CorpusCount(n, w, s) ==
    IF n = 0 THEN 0
    ELSE CorpusCount(n - 1, w, s)
         + (LET toks == tokenize(source_texts[n])
            IN IF Len(toks) > order THEN Cardinality(Positions(toks, w, s)) ELSE 0)

\* C8: after the build, the occurrences of s in model[w] are the positions
\* of the corpus at which w is followed by s; every key has such a position.
C8_SuccessorCounts ==
    pc = "ready" =>
        /\ DOMAIN model \subseteq [1..order -> AllTokens]
        /\ \A w \in DOMAIN model : Range(model[w]) \subseteq AllTokens
        /\ \A w \in [1..order -> AllTokens], s \in AllTokens :
               ModelCount(w, s) = CorpusCount(Len(source_texts), w, s)
        /\ \A w \in DOMAIN model : \E s \in AllTokens :
               CorpusCount(Len(source_texts), w, s) > 0

\* a key with a repeated successor and a second successor
C8_Witness ==
    /\ pc = "ready"
    /\ \E w \in DOMAIN model : \E s1, s2 \in AllTokens :
          s1 # s2 /\ ModelCount(w, s1) >= 2 /\ ModelCount(w, s2) >= 1

\* the first order tokens of the texts, among the first n, of at least
\* order + 1 tokens
RECURSIVE Openings(_)
Openings(n) ==
    IF n = 0 THEN <<>>
    ELSE LET toks == tokenize(source_texts[n])
         IN IF Len(toks) >= order + 1
            THEN Append(Openings(n - 1), SubSeq(toks, 1, order))
            ELSE Openings(n - 1)

\* C9: after the build, beginnings holds the first order tokens of each text
\* of at least order + 1 tokens, in input order, duplicates kept.
C9_Beginnings == pc = "ready" => beginnings = Openings(Len(source_texts))

\* two texts with the same opening
C9_Witness ==
    /\ pc = "ready" /\ Len(beginnings) = 2
    /\ beginnings[1] = beginnings[2]
    /\ source_texts[1] # source_texts[2]

\* the raw words of a text, as split() gives them
RawWordsOf(t) == Split(Strip(CollapseWhitespace(t)))

\* C10: _tokenize emits no empty token; a token that does not end with '.',
\* '!' or '?' is alphanumeric only; a raw word that ends so is emitted as is.
C10_TokensClean ==
    pc = "tokenized" =>
        /\ \A i \in 1..Len(words) :
              /\ words[i] # <<>>
              /\ ~EndsTerminal(words[i]) => Range(words[i]) \subseteq Alnum
        /\ \A r \in Range(RawWordsOf(text)) :
              EndsTerminal(r) => r \in Range(words)

\* the order tokens of res before position p
WindowBefore(res, p) == SubSeq(res, p - order, p - 1)

\* C12: in the loop of generate_text current is the last order tokens of the
\* result, every token past the start window is a recorded successor of the
\* order tokens before it, and a key with one successor yields that successor.
C12_AppendsRecordedSuccessor ==
    /\ [](pc = "loop" =>
            current = SubSeq(result, Len(result) - order + 1, Len(result)))
    /\ [](pc \in {"loop", "post"} =>
            \A p \in (order + 1)..Len(result) :
                /\ WindowBefore(result, p) \in DOMAIN model
                /\ result[p] \in Range(model[WindowBefore(result, p)]))
    /\ [][(pc = "loop" /\ Len(result') = Len(result) + 1
              /\ Len(model[current]) = 1)
          => result' = Append(result, model[current][1])]_vars

\* two tokens were appended, one from a key with a single successor and one
\* from a key with several
C12_Witness ==
    /\ pc = "post" /\ Len(result) >= order + 2
    /\ \E p \in (order + 1)..Len(result) : Len(model[WindowBefore(result, p)]) = 1
    /\ \E p \in (order + 1)..Len(result) : Len(model[WindowBefore(result, p)]) > 1

\* no token of toks past the start window and at or past min_words, the last
\* one aside, is a terminal token
NoInnerTerminal(toks) ==
    \A p \in 1..(Len(toks) - 1) :
        (p > order /\ p >= min_words) => ~EndsTerminal(toks[p])

\* C13: an append ends the loop exactly when the token is a terminal token
\* and the result has at least min_words tokens; so no token of an output
\* past the start window and at or past min_words, the last aside, is terminal.
C13_StopsAtNaturalEnding ==
    /\ [][(pc = "loop" /\ Len(result') = Len(result) + 1)
          => (pc' = "post" <=>
                (EndsTerminal(Last(result')) /\ Len(result') >= min_words))]_vars
    /\ [](pc = "post" => NoInnerTerminal(result))
    /\ [](pc = "done" => NoInnerTerminal(Split(ret)))

\* a terminal token appended below min_words did not end the loop, a later
\* one did
C13_Witness ==
    /\ pc = "done" /\ stop = "terminal"
    /\ \E p \in (order + 1)..(Len(result) - 1) :
          EndsTerminal(result[p]) /\ p < min_words

\* the first order tokens of the source texts of at least order tokens
SourceOpenings ==
    {SubSeq(tokenize(source_texts[t]), 1, order) :
        t \in {u \in 1..Len(source_texts) : Len(tokenize(source_texts[u])) >= order}}

\* the string pre is a prefix of the string str
IsPrefix(pre, str) == Len(pre) <= Len(str) /\ SubSeq(str, 1, Len(pre)) = pre

\* beginnings is empty iff the model is, and every beginning is a key
BeginningsMatchModel ==
    /\ (beginnings = <<>>) <=> NoKey
    /\ Range(beginnings) \subseteq DOMAIN model

\* C14 as stated: beginnings is empty iff the model is, every beginning is a
\* key, no call raises, and the first order tokens of every non-empty output
\* are the first order tokens of a source text.
C14_StartsWithOpeningTokens ==
    /\ BeginningsMatchModel
    /\ pc # "raised"
    /\ (pc = "done" /\ ret # <<>>) =>
           SubSeq(Split(ret), 1, order) \in SourceOpenings

\* C14: beginnings is empty iff the model is, every beginning is a key, no
\* call raises, every call starts from an entry of beginnings that opens a
\* source text, and every non-empty output has, as a string, the first order
\* tokens of a source text joined by spaces as a prefix.
C14_StartsFromBeginning ==
    /\ BeginningsMatchModel
    /\ pc # "raised"
    /\ pc \in {"loop", "post"} =>
           /\ SubSeq(result, 1, order) \in Range(beginnings)
           /\ SubSeq(result, 1, order) \in SourceOpenings
    /\ (pc = "done" /\ ret # <<>>) =>
           \E w \in SourceOpenings : IsPrefix(Join(w), ret)

\* an output of order tokens whose last token got the final '.'
C14_Witness ==
    /\ pc = "done" /\ ret # <<>>
    /\ Len(result) = order
    /\ SubSeq(Split(ret), 1, order) \notin SourceOpenings

\* C15: once the constructor has returned, no step of a generate_text call
\* changes model or beginnings.
C15_GenerateKeepsModel ==
    [][pc # "build" => (model' = model /\ beginnings' = beginnings)]_vars

\* a call has returned a start window whose last token got the final '.',
\* and the window is still stored as it was
C15_Witness ==
    /\ pc = "done" /\ Len(result) = order
    /\ result \notin Range(beginnings)
    /\ \E j \in 1..Len(beginnings) : Join(beginnings[j]) \o <<".">> = ret

\* the model a sliding window of n words builds from the words ws
SlidingModel(ws, n) == AddWindows(EmptyModel, ws, n, 0)

\* C16 as stated: whenever add_sentence records a key, its keys are not the
\* keys of a sliding window of order words over the same words.
C16_LegacyKeysDiffer ==
    (pc = "added" /\ DOMAIN freq # {}) =>
        DOMAIN freq # DOMAIN SlidingModel(words, order)

\* C16: with order 2 add_sentence records what a sliding window of 2 words
\* over the same words records; with another order none of its keys is a key
\* of the sliding window of order words.
C16_LegacyKeys ==
    pc = "added" =>
        /\ order = 2 => freq = SlidingModel(words, order)
        /\ order # 2 => DOMAIN freq \cap DOMAIN SlidingModel(words, order) = {}

\* a sentence that gave several keys at order 2
C16_Witness ==
    /\ pc = "added" /\ order = 2
    /\ Cardinality(DOMAIN freq) >= 2
    /\ \E k \in DOMAIN freq : k[1] # k[2]
====
